---- MODULE Spec2Model ----
(***************************************************************************)
(* State-machine model of src/src/TimesheetPage.js: the timesheet page     *)
(* component in its three variants (lines 1-471, 473-1105, 1107-1447).     *)
(*                                                                         *)
(* Each event handler of the component is one action; the handler runs to  *)
(* completion (React event handlers are synchronous), so an action covers  *)
(* the whole handler including the fetchEntries() call that ends it.       *)
(*                                                                         *)
(* Encoding of JavaScript values                                           *)
(*   - a date string "yyyy-MM-dd" is the tuple <<yyyy, MM, dd>>; the empty *)
(*     string is <<>>.  The fields are zero padded and of fixed width, so  *)
(*     String.prototype.localeCompare on two such strings is the           *)
(*     lexicographic comparison of the tuples (LocaleCompare).             *)
(*   - the hours value is a tagged value (Str, Num, NaN, Null, Undefined): *)
(*     the form holds the text of the input, a stored entry holds a number *)
(*     or, after JSON has lost a NaN, null.  The text is a sequence of     *)
(*     one-character strings so that parseFloat can be computed on it.     *)
(*   - a number is kept in tenths (4.5 is 45): the hours input has         *)
(*     step="0.5", and every text the model types has at most one decimal. *)
(*   - an id (crypto.randomUUID()) is a token 1..MaxEntries; 0 is null.    *)
(***************************************************************************)
EXTENDS Integers, Sequences, FiniteSets, TLC

\* Bound: how many ids can be alive at once, hence how many entries exist.
MaxEntries == 2
\* Bound: the clock (new Date()) takes the values 0..MaxClock.
MaxClock == 1
\* Bound: how many triage shift ids can be alive at once.
MaxShifts == 2

Variants == {1, 2, 3}

VARIABLES
    variant,    \* which of the three variants of the page is running
    storage,    \* localStorage[STORAGE_KEY]
    entries,    \* useState: the in-memory entries list
    editId,     \* useState: id of the entry being edited, 0 for null
    formData,   \* useState: the form
    now,        \* the clock read by new Date()
    last,       \* observation of the last handler: which one ran, how it ended
    download,   \* the CSV text the last handler handed to the browser
    writable,   \* localStorage accepts a setItem (FALSE: it throws, quota exceeded)
    triageStorage,    \* localStorage[TRIAGE_STORAGE_KEY]
    triageEntries,    \* useState: the in-memory triage list
    triageFormData,   \* useState: the triage form
    showTriageForm,   \* useState: the triage form is rendered
    otherTriageEntries  \* useState of a second tab on the same origin: its triage list

\* The state of the triage section, which the timesheet handlers never touch.
triage == <<triageStorage, triageEntries, triageFormData, showTriageForm>>

vars == <<variant, storage, entries, editId, formData, now, last, download,
          writable, triageStorage, triageEntries, triageFormData, showTriageForm,
          otherTriageEntries>>

-----------------------------------------------------------------------------
(* JavaScript values *)

Str(s) == [k |-> "str", s |-> s, n |-> 0]
Num(n) == [k |-> "num", s |-> <<>>, n |-> n]
NaN == [k |-> "nan", s |-> <<>>, n |-> 0]
Null == [k |-> "null", s |-> <<>>, n |-> 0]
Undefined == [k |-> "undefined", s |-> <<>>, n |-> 0]

NoId == 0

\* !x is false: a non-empty string, a number other than 0 and NaN.
Truthy(v) ==
    CASE v.k = "str" -> v.s # <<>>
      [] v.k = "num" -> v.n # 0
      [] OTHER -> FALSE

DigitChars == <<"0", "1", "2", "3", "4", "5", "6", "7", "8", "9">>

IsDigit(c) == \E d \in 1..Len(DigitChars) : DigitChars[d] = c

DigitVal(c) == (CHOOSE d \in 1..Len(DigitChars) : DigitChars[d] = c) - 1

\* Length of the run of digits of s that starts at position i.
RECURSIVE DigitRun(_, _)
DigitRun(s, i) ==
    IF i <= Len(s) /\ IsDigit(s[i]) THEN 1 + DigitRun(s, i + 1) ELSE 0

\* Value of the n digits of s that start at position i.
RECURSIVE DigitsValue(_, _, _)
DigitsValue(s, i, n) ==
    IF n = 0 THEN 0 ELSE DigitsValue(s, i, n - 1) * 10 + DigitVal(s[i + n - 1])

\* parseFloat on a string: the longest prefix [+-]digits[.digits] decides,
\* NaN when that prefix has no digit.  Result in tenths.
StringToFloat(s) ==
    LET sg == IF Len(s) >= 1 /\ s[1] \in {"+", "-"} THEN 1 ELSE 0
        i0 == sg + 1
        ni == DigitRun(s, i0)
        hasDot == i0 + ni <= Len(s) /\ s[i0 + ni] = "."
        nf == IF hasDot THEN DigitRun(s, i0 + ni + 1) ELSE 0
        mag == DigitsValue(s, i0, ni) * 10
               + (IF nf >= 1 THEN DigitVal(s[i0 + ni + 1]) ELSE 0)
    IN  IF ni + nf = 0 THEN NaN
        ELSE Num(IF sg = 1 /\ s[1] = "-" THEN 0 - mag ELSE mag)

\* parseFloat(v): v is converted to a string first, so a number comes back
\* as itself and null, undefined and NaN give NaN.
ParseFloat(v) ==
    CASE v.k = "str" -> StringToFloat(v.s)
      [] v.k = "num" -> v
      [] OTHER -> NaN

\* Mutant of ParseHoursOrZero: the fallback is 1 instead of 0.
ParseHoursOrOne(v) ==
    LET p == ParseFloat(v) IN IF Truthy(p) THEN p.n ELSE 10

\* The number (in tenths) of `parseFloat(x) || 0`.
ParseHoursOrZero(v) ==
    LET p == ParseFloat(v) IN IF Truthy(p) THEN p.n ELSE 0

\* JSON.parse(JSON.stringify(v)) of an hours value: NaN is written as null.
JsonValue(v) == IF v.k = "nan" THEN Null ELSE v

\* JSON.parse(JSON.stringify(entry)).
JsonEntry(e) == [e EXCEPT !.hours = JsonValue(e.hours)]

-----------------------------------------------------------------------------
(* Dates *)

RECURSIVE LexCompare(_, _, _)
LexCompare(a, b, i) ==
    IF i > Len(a) /\ i > Len(b) THEN 0
    ELSE IF i > Len(a) THEN -1
    ELSE IF i > Len(b) THEN 1
    ELSE IF a[i] < b[i] THEN -1
    ELSE IF a[i] > b[i] THEN 1
    ELSE LexCompare(a, b, i + 1)

\* a.localeCompare(b) for two date strings.
LocaleCompare(a, b) == LexCompare(a, b, 1)

EmptyDate == <<>>
Jan31 == <<2024, 1, 31>>
Feb01 == <<2024, 2, 1>>

\* format(new Date(), 'yyyy-MM-dd'): the session stays within one day.
Today == Feb01

-----------------------------------------------------------------------------
(* Array.prototype.sort with the comparator of fetchEntries: stable. *)

\* x inserted into the sorted sequence s behind every element that does not
\* compare greater than x.
RECURSIVE InsertByDate(_, _)
InsertByDate(s, x) ==
    IF s = <<>> THEN <<x>>
    ELSE IF LocaleCompare(s[Len(s)].date, x.date) > 0
         THEN Append(InsertByDate(SubSeq(s, 1, Len(s) - 1), x), s[Len(s)])
         ELSE Append(s, x)

RECURSIVE SortByDate(_)
SortByDate(s) ==
    IF s = <<>> THEN <<>>
    ELSE InsertByDate(SortByDate(SubSeq(s, 1, Len(s) - 1)), s[Len(s)])

-----------------------------------------------------------------------------
(* localStorage[STORAGE_KEY] *)

Missing == [kind |-> "missing", items |-> <<>>]
Json(items) == [kind |-> "json", items |-> items]
Corrupt == [kind |-> "corrupt", items |-> <<>>]

\* JSON.parse(saved) throws a SyntaxError.
ParseThrows(st) == st.kind = "corrupt"

\* saved ? JSON.parse(saved) : []
ParseSaved(st) == IF st.kind = "json" THEN st.items ELSE <<>>

Ids == 1..MaxEntries

IdsOf(s) == {s[i].id : i \in DOMAIN s}

\* Mutant of FetchEntries: the list is stored as parsed, without the sort.
FetchEntriesUnsorted(st, cur) ==
    IF ParseThrows(st) THEN cur ELSE ParseSaved(st)

\* fetchEntries: the list given to setEntries; on an exception the catch
\* block logs and the list stays what it was.
FetchEntries(st, cur) ==
    IF ParseThrows(st) THEN cur ELSE SortByDate(ParseSaved(st))

-----------------------------------------------------------------------------
(* Vocabulary of the three variants *)

CATEGORIES(v) ==
    CASE v = 1 -> <<"project", "MS", "Training", "certification", "Holiday">>
      [] v = 2 -> <<"Project", "MS", "Training", "Certification", "Holiday">>
      [] v = 3 -> <<"project", "MS", "Training", "certification">>

EFFORT_TYPES(v) ==
    CASE v = 1 -> <<"billable", "nonbillable">>
      [] v = 2 -> <<"Billable", "Non-Billable">>
      [] v = 3 -> <<"billable", "nonbillable">>

Range(s) == {s[i] : i \in DOMAIN s}

\* The two literal arrays tested by handleInputChange and the value each sets.
BillableCategories(v) == IF v = 2 THEN {"Project", "MS"} ELSE {"project", "MS"}

\* Mutant of NonBillableCategories: the array of the third variant, which
\* has no Holiday, in every variant.
NonBillableCategoriesNoHoliday(v) ==
    IF v = 2 THEN {"Training", "Certification"} ELSE {"Training", "certification"}

NonBillableCategories(v) ==
    CASE v = 1 -> {"Training", "certification", "Holiday"}
      [] v = 2 -> {"Training", "Certification", "Holiday"}
      [] v = 3 -> {"Training", "certification"}

BillableValue(v) == IF v = 2 THEN "Billable" ELSE "billable"

NonBillableValue(v) == IF v = 2 THEN "Non-Billable" ELSE "nonbillable"

\* The form as useState initialises it and as submit and cancel reset it:
\* the same literal in the three variants.
InitialForm ==
    [date |-> Today, task |-> "", description |-> "", category |-> "project",
     effort_type |-> "billable", hours |-> Str(<<>>)]

-----------------------------------------------------------------------------
(* What the user can type or select *)

DateInputs == {EmptyDate, Jan31, Feb01}
TaskInputs == {"", "t"}
DescriptionInputs == {""}
HoursInputs == {Str(<<>>), Str(<<"0">>), Str(<<"8">>), Str(<<"x">>)}

\* The options of the category select that the user picks from: one that
\* handleInputChange maps to billable, one that it maps to non-billable.
CategoryInputs(v) == IF v = 3 THEN {"Training"} ELSE {"MS", "Training"}

\* The effort select is disabled in variants 1 and 2, enabled in variant 3.
Fields(v) ==
    {"date", "task", "description", "category", "hours"}
        \cup (IF v = 3 THEN {"effort_type"} ELSE {})

InputValues(v, name) ==
    CASE name = "date" -> DateInputs
      [] name = "task" -> TaskInputs
      [] name = "description" -> DescriptionInputs
      [] name = "category" -> CategoryInputs(v)
      [] name = "effort_type" -> Range(EFFORT_TYPES(v))
      [] name = "hours" -> HoursInputs

-----------------------------------------------------------------------------
(* Text: what the CSV export makes of an entry.  A text is a sequence of    *)
(* symbols; the comma, the double quote and the line feed are symbols of    *)
(* their own, and a run of other characters is one symbol.                  *)

Comma == ","
Quote == "\""
LineFeed == "\n"

\* The symbols of a string of the model.
Chars(s) ==
    CASE s = "" -> <<>>
      [] s = "\"" -> <<Quote>>
      [] s = "a,b" -> <<"a", Comma, "b">>
      [] s = "\",\"" -> <<Quote, Comma, Quote>>
      [] s = "He said \"hi\"" -> <<"He said ", Quote, "hi", Quote>>
      [] s = "x\ny" -> <<"x", LineFeed, "y">>
      [] OTHER -> <<s>>

\* cs.replace(/"/g, '""')
RECURSIVE ReplaceQuotes(_)
ReplaceQuotes(cs) ==
    IF cs = <<>> THEN <<>>
    ELSE (IF Head(cs) = Quote THEN <<Quote, Quote>> ELSE <<Head(cs)>>)
         \o ReplaceQuotes(Tail(cs))

\* Mutant of QuotedField: the quotes inside the text are left single.
QuotedFieldNoEscape(cs) == <<Quote>> \o cs \o <<Quote>>

\* `"${cs.replace(/"/g, '""')}"`
QuotedField(cs) == <<Quote>> \o ReplaceQuotes(cs) \o <<Quote>>

\* The decimal digits of a natural number.
RECURSIVE Digits(_)
Digits(n) ==
    IF n < 10 THEN <<DigitChars[n + 1]>>
    ELSE Digits(n \div 10) \o <<DigitChars[(n % 10) + 1]>>

\* String(x) of a number x given in tenths.
NumberToString(t) ==
    LET a == IF t < 0 THEN 0 - t ELSE t
    IN  (IF t < 0 THEN <<"-">> ELSE <<>>)
        \o Digits(a \div 10)
        \o (IF a % 10 = 0 THEN <<>> ELSE <<".", DigitChars[(a % 10) + 1]>>)

\* An hours value as Array.prototype.join writes it: null and undefined
\* give the empty string.
HoursText(v) ==
    CASE v.k = "num" -> NumberToString(v.n)
      [] v.k = "str" -> v.s
      [] v.k = "nan" -> <<"NaN">>
      [] OTHER -> <<>>

\* n written with w digits, zero padded.
RECURSIVE Pad(_, _)
Pad(n, w) ==
    IF w = 0 THEN <<>> ELSE Pad(n \div 10, w - 1) \o <<DigitChars[(n % 10) + 1]>>

\* The string "yyyy-MM-dd" of a date of the model.
DateString(d) ==
    IF d = EmptyDate THEN <<>>
    ELSE Pad(d[1], 4) \o <<"-">> \o Pad(d[2], 2) \o <<"-">> \o Pad(d[3], 2)

DayNames ==
    <<"Sunday", "Monday", "Tuesday", "Wednesday", "Thursday", "Friday", "Saturday">>

\* format(parseISO(date), 'EEEE'): the name of the day of the week.
DayName(d) ==
    LET t == <<0, 3, 2, 5, 0, 3, 5, 1, 4, 6, 2, 4>>
        y == IF d[2] < 3 THEN d[1] - 1 ELSE d[1]
    IN  DayNames[((y + (y \div 4) - (y \div 100) + (y \div 400) + t[d[2]] + d[3]) % 7) + 1]

\* parts.join(sep)
RECURSIVE Join(_, _)
Join(parts, sep) ==
    IF parts = <<>> THEN <<>>
    ELSE IF Len(parts) = 1 THEN parts[1]
    ELSE parts[1] \o <<sep>> \o Join(Tail(parts), sep)

CsvHeaders == <<"Day", "Date", "Task", "Description", "Category", "Effort", "Hours">>

\* Mutant of CsvRow: the effort type is left out.
CsvRowNoEffort(e) ==
    <<Chars(DayName(e.date)), DateString(e.date), QuotedField(Chars(e.task)),
      QuotedField(Chars(e.description)), Chars(e.category), HoursText(e.hours)>>

\* The array that entries.map makes of one entry.
CsvRow(e) ==
    <<Chars(DayName(e.date)), DateString(e.date), QuotedField(Chars(e.task)),
      QuotedField(Chars(e.description)), Chars(e.category), Chars(e.effort_type),
      HoursText(e.hours)>>

\* csvContent
CsvContent(es) ==
    Join(<<Join([i \in DOMAIN CsvHeaders |-> Chars(CsvHeaders[i])], Comma)>>
         \o [i \in DOMAIN es |-> Join(CsvRow(es[i]), Comma)], LineFeed)

\* No file was handed to the browser.
NoDownload == <<>>

\* format(parseISO(date), 'EEEE') throws a RangeError on a date that does
\* not parse.
FormatThrows(es) == \E i \in DOMAIN es : es[i].date = EmptyDate

-----------------------------------------------------------------------------
(* Handlers *)

Outcome(op, how) == [op |-> op, outcome |-> how]

\* handleInputChange: the updater given to setFormData.
InputChange(v, prev, name, value) ==
    LET newData == [prev EXCEPT ![name] = value]
    IN  IF name = "category"
        THEN IF value \in BillableCategories(v)
             THEN [newData EXCEPT !.effort_type = BillableValue(v)]
             ELSE IF value \in NonBillableCategories(v)
                  THEN [newData EXCEPT !.effort_type = NonBillableValue(v)]
                  ELSE newData
        ELSE newData

\* onChange fires when the value of the control changes.
HandleInputChange(name, value) ==
    /\ formData[name] # value
    /\ formData' = InputChange(variant, formData, name, value)
    /\ last' = Outcome("input", "changed")
    /\ download' = NoDownload
    /\ UNCHANGED <<variant, storage, entries, editId, now, writable, triage, otherTriageEntries>>

\* Mutant of UpdateStorageEntry: a new entry is put in front (unshift).
UpdateStorageEntryInFront(all, id, entry) ==
    IF id # NoId
    THEN [i \in DOMAIN all |-> IF all[i].id = id THEN entry ELSE all[i]]
    ELSE <<entry>> \o all

\* updateStorageEntry: the array written back.
UpdateStorageEntry(all, id, entry) ==
    IF id # NoId
    THEN [i \in DOMAIN all |-> IF all[i].id = id THEN entry ELSE all[i]]
    ELSE Append(all, entry)

\* Mutant of MissingRequired: the date is not checked.
MissingRequiredNoDate(f) == f.task = "" \/ ~Truthy(f.hours)

\* The validation of handleSubmit.
MissingRequired(f) == f.task = "" \/ f.date = EmptyDate \/ ~Truthy(f.hours)

\* crypto.randomUUID(): an id that nothing in the state refers to.
UsedIds == IdsOf(ParseSaved(storage)) \cup IdsOf(entries) \cup {editId}

FreshIds ==
    LET free == Ids \ UsedIds
    IN  {i \in free : \A j \in free : i <= j}

NewEntry(f, id, t) ==
    [id |-> id, task |-> f.task, description |-> f.description,
     category |-> f.category, effort_type |-> f.effort_type, date |-> f.date,
     hours |-> ParseFloat(f.hours), created_at |-> t]

\* The clock after a reading: time has passed when the next handler reads
\* it, up to MaxClock.
ClockAfter(t) == IF t < MaxClock THEN t + 1 ELSE t

\* handleSubmit; JSON.parse or setItem throwing inside updateStorageEntry
\* ends in the catch block, which alerts and changes nothing.
HandleSubmit ==
    /\ download' = NoDownload
    /\ UNCHANGED <<variant, writable, triage, otherTriageEntries>>
    /\ IF MissingRequired(formData)
       THEN /\ last' = Outcome("submit", "required")
            /\ UNCHANGED <<storage, entries, editId, formData, now>>
       ELSE \E id \in (IF editId # NoId THEN {editId} ELSE FreshIds) :
               /\ now' = ClockAfter(now)
               /\ IF ParseThrows(storage) \/ ~writable
                  THEN /\ last' = Outcome("submit", "error")
                       /\ UNCHANGED <<storage, entries, editId, formData>>
                  ELSE /\ storage' = Json(UpdateStorageEntry(ParseSaved(storage), editId,
                                             JsonEntry(NewEntry(formData, id, now))))
                       /\ formData' = InitialForm
                       /\ editId' = NoId
                       /\ entries' = FetchEntries(storage', entries)
                       /\ last' = Outcome("submit", "saved")

\* handleEdit(entry), entry being row i of the rendered list.
HandleEdit(i) ==
    /\ i \in DOMAIN entries
    /\ editId' = entries[i].id
    /\ formData' = [date |-> entries[i].date, task |-> entries[i].task,
                    description |-> entries[i].description,
                    category |-> entries[i].category,
                    effort_type |-> entries[i].effort_type,
                    hours |-> entries[i].hours]
    /\ last' = Outcome("edit", "loaded")
    /\ download' = NoDownload
    /\ UNCHANGED <<variant, storage, entries, now, writable, triage, otherTriageEntries>>

\* The Cancel button is rendered only while editId is set.
HandleCancelEdit ==
    /\ editId # NoId
    /\ editId' = NoId
    /\ formData' = InitialForm
    /\ last' = Outcome("cancel", "reset")
    /\ download' = NoDownload
    /\ UNCHANGED <<variant, storage, entries, now, writable, triage, otherTriageEntries>>

\* Mutant of RemoveId: the test of the filter is inverted.
RemoveIdInverted(all, id) == SelectSeq(all, LAMBDA e : e.id = id)

\* The filter of handleDelete.
RemoveId(all, id) == SelectSeq(all, LAMBDA e : e.id # id)

\* handleDelete(e, id), id being that of row i; confirm is window.confirm's
\* answer.  There is no try/catch: JSON.parse or setItem throwing leaves the
\* handler before fetchEntries().
HandleDelete(i, confirm) ==
    /\ i \in DOMAIN entries
    /\ download' = NoDownload
    /\ UNCHANGED <<variant, editId, formData, now, writable, triage, otherTriageEntries>>
    /\ IF ~confirm
       THEN /\ last' = Outcome("delete", "declined")
            /\ UNCHANGED <<storage, entries>>
       ELSE IF ParseThrows(storage) \/ ~writable
       THEN /\ last' = Outcome("delete", "threw")
            /\ UNCHANGED <<storage, entries>>
       ELSE /\ storage' = Json(RemoveId(ParseSaved(storage), entries[i].id))
            /\ entries' = FetchEntries(storage', entries)
            /\ last' = Outcome("delete", "deleted")

\* Mutant of HandleResetAndExport: the early return on an empty list is
\* missing; the confirmation is asked and a CSV of the header alone is made.
HandleResetAndExportNoEarlyReturn(confirm) ==
    /\ UNCHANGED <<variant, editId, formData, now, writable, triage, otherTriageEntries>>
    /\ IF ~confirm
       THEN /\ last' = Outcome("export", "declined")
            /\ download' = NoDownload
            /\ UNCHANGED <<storage, entries>>
       ELSE IF FormatThrows(entries)
       THEN /\ last' = Outcome("export", "threw")
            /\ download' = NoDownload
            /\ UNCHANGED <<storage, entries>>
       ELSE /\ download' = CsvContent(entries)
            /\ storage' = Missing
            /\ entries' = <<>>
            /\ last' = Outcome("export", "cleared")

\* Mutant of HandleResetAndExport: storage is cleared, setEntries([]) is
\* forgotten.
HandleResetAndExportKeepsEntries(confirm) ==
    /\ UNCHANGED <<variant, editId, formData, now, writable, triage, otherTriageEntries>>
    /\ IF entries = <<>>
       THEN /\ last' = Outcome("export", "nodata")
            /\ download' = NoDownload
            /\ UNCHANGED <<storage, entries>>
       ELSE IF ~confirm
       THEN /\ last' = Outcome("export", "declined")
            /\ download' = NoDownload
            /\ UNCHANGED <<storage, entries>>
       ELSE IF FormatThrows(entries)
       THEN /\ last' = Outcome("export", "threw")
            /\ download' = NoDownload
            /\ UNCHANGED <<storage, entries>>
       ELSE /\ download' = CsvContent(entries)
            /\ storage' = Missing
            /\ last' = Outcome("export", "cleared")
            /\ UNCHANGED entries

\* handleResetAndExport; confirm is asked only when there is something to
\* export.  The CSV is built and handed to the browser, then the key is
\* removed (removeItem does not throw) and the list emptied.
HandleResetAndExport(confirm) ==
    /\ UNCHANGED <<variant, editId, formData, now, writable, triage, otherTriageEntries>>
    /\ IF entries = <<>>
       THEN /\ last' = Outcome("export", "nodata")
            /\ download' = NoDownload
            /\ UNCHANGED <<storage, entries>>
       ELSE IF ~confirm
       THEN /\ last' = Outcome("export", "declined")
            /\ download' = NoDownload
            /\ UNCHANGED <<storage, entries>>
       ELSE IF FormatThrows(entries)
       THEN /\ last' = Outcome("export", "threw")
            /\ download' = NoDownload
            /\ UNCHANGED <<storage, entries>>
       ELSE /\ download' = CsvContent(entries)
            /\ storage' = Missing
            /\ entries' = <<>>
            /\ last' = Outcome("export", "cleared")

-----------------------------------------------------------------------------
(* Derived views: the useMemo values, functions of the entries list *)

\* Mutant of IsBillable: the second variant accepts its own spelling only.
IsBillableOwnSpelling(v, effort) ==
    IF v = 2 THEN effort = "Billable" ELSE effort = "billable"

\* The test that sends an entry's hours to the billable bucket.
IsBillable(v, effort) ==
    IF v = 2 THEN effort \in {"Billable", "billable"} ELSE effort = "billable"

EmptyMap == [c \in {} |-> 0]

\* Mutant of AddTo: map[c] = h, the hours already under the key are dropped.
AddToOverwrites(map, c, h) ==
    IF c \in DOMAIN map THEN [map EXCEPT ![c] = h] ELSE map @@ (c :> h)

\* map[c] = (map[c] || 0) + h
AddTo(map, c, h) ==
    IF c \in DOMAIN map THEN [map EXCEPT ![c] = @ + h] ELSE map @@ (c :> h)

EmptySummary(v) ==
    IF v = 3
    THEN [total |-> 0, billable |-> 0, nonBillable |-> 0, categoryTotals |-> EmptyMap]
    ELSE [total |-> 0, billable |-> 0, nonBillable |-> 0,
          billableCategories |-> EmptyMap, nonBillableCategories |-> EmptyMap]

\* The hours of one entry as the summary and the groups read them.
EntryHours(e) == ParseHoursOrZero(e.hours)

\* Mutant of SummaryStep: the second bucket tests for the non-billable
\* value instead of taking everything that is not billable.
SummaryStepStrictElse(v, acc, e) ==
    LET h == EntryHours(e)
        nb == e.effort_type = NonBillableValue(v)
    IN  IF v = 3
        THEN [acc EXCEPT !.total = @ + h,
                         !.billable = IF IsBillable(v, e.effort_type) THEN @ + h ELSE @,
                         !.nonBillable = IF nb THEN @ + h ELSE @,
                         !.categoryTotals = AddTo(@, e.category, h)]
        ELSE IF IsBillable(v, e.effort_type)
             THEN [acc EXCEPT !.total = @ + h, !.billable = @ + h,
                              !.billableCategories = AddTo(@, e.category, h)]
             ELSE IF nb
                  THEN [acc EXCEPT !.total = @ + h, !.nonBillable = @ + h,
                                   !.nonBillableCategories = AddTo(@, e.category, h)]
                  ELSE [acc EXCEPT !.total = @ + h]

\* The body of the forEach of summary.
SummaryStep(v, acc, e) ==
    LET h == EntryHours(e)
    IN  IF v = 3
        THEN [acc EXCEPT !.total = @ + h,
                         !.billable = IF IsBillable(v, e.effort_type) THEN @ + h ELSE @,
                         !.nonBillable = IF IsBillable(v, e.effort_type) THEN @ ELSE @ + h,
                         !.categoryTotals = AddTo(@, e.category, h)]
        ELSE IF IsBillable(v, e.effort_type)
             THEN [acc EXCEPT !.total = @ + h, !.billable = @ + h,
                              !.billableCategories = AddTo(@, e.category, h)]
             ELSE [acc EXCEPT !.total = @ + h, !.nonBillable = @ + h,
                              !.nonBillableCategories = AddTo(@, e.category, h)]

RECURSIVE SummaryFold(_, _, _, _)
SummaryFold(v, es, i, acc) ==
    IF i > Len(es) THEN acc ELSE SummaryFold(v, es, i + 1, SummaryStep(v, acc, es[i]))

Summary(v, es) == SummaryFold(v, es, 1, EmptySummary(v))

\* Mutant of GroupStep: the entry is put in front of the items of its group.
GroupStepInFront(groups, e) ==
    LET g0 == IF \E j \in DOMAIN groups : groups[j].date = e.date
              THEN groups
              ELSE Append(groups, [date |-> e.date, totalHours |-> 0, items |-> <<>>])
        j == CHOOSE j \in DOMAIN g0 : g0[j].date = e.date
    IN  [g0 EXCEPT ![j] = [date |-> @.date,
                           totalHours |-> @.totalHours + EntryHours(e),
                           items |-> <<e>> \o @.items]]

\* The body of the forEach of groupedEntries; groups keeps the keys of the
\* object in insertion order.
GroupStep(groups, e) ==
    LET g0 == IF \E j \in DOMAIN groups : groups[j].date = e.date
              THEN groups
              ELSE Append(groups, [date |-> e.date, totalHours |-> 0, items |-> <<>>])
        j == CHOOSE j \in DOMAIN g0 : g0[j].date = e.date
    IN  [g0 EXCEPT ![j] = [date |-> @.date,
                           totalHours |-> @.totalHours + EntryHours(e),
                           items |-> Append(@.items, e)]]

RECURSIVE GroupFold(_, _, _)
GroupFold(es, i, groups) ==
    IF i > Len(es) THEN groups ELSE GroupFold(es, i + 1, GroupStep(groups, es[i]))

\* Object.values(groups).sort(by date)
GroupedEntries(es) == SortByDate(GroupFold(es, 1, <<>>))

\* The day total above which the second variant renders the overtime
\* warning: 8 hours, in tenths.
OvertimeThreshold == 80

\* Mutant of OvertimeWarning: the warning is rendered from 8 hours on.
OvertimeWarningFromThreshold(group) == group.totalHours >= OvertimeThreshold

\* group.totalHours > 8 && <div className="overtime-warning">
OvertimeWarning(group) == group.totalHours > OvertimeThreshold

-----------------------------------------------------------------------------
(* The triage section (second variant) *)

\* Array.prototype.sort with the comparator of the triage list: by date,
\* descending, stable.
RECURSIVE InsertByDateDesc(_, _)
InsertByDateDesc(s, x) ==
    IF s = <<>> THEN <<x>>
    ELSE IF LocaleCompare(x.date, s[Len(s)].date) > 0
         THEN Append(InsertByDateDesc(SubSeq(s, 1, Len(s) - 1), x), s[Len(s)])
         ELSE Append(s, x)

\* Mutant of SortByDateDesc: the list is left in the order it came in.
SortByDateDescNone(s) == s

RECURSIVE SortByDateDesc(_)
SortByDateDesc(s) ==
    IF s = <<>> THEN <<>>
    ELSE InsertByDateDesc(SortByDateDesc(SubSeq(s, 1, Len(s) - 1)), s[Len(s)])

\* fetchTriageEntries: the list given to setTriageEntries.
FetchTriageEntries(st, cur) ==
    IF ParseThrows(st) THEN cur ELSE SortByDateDesc(ParseSaved(st))

\* The triage form as useState initialises it and as a submit resets it.
InitialTriageForm == [date |-> Today, shiftType |-> "s1"]

\* The date input of the triage form is `required`: the browser does not
\* submit the form while it is empty.
TriageDateInputs == {Jan31}
ShiftTypeInputs == {"s2"}

TriageInputValues(name) ==
    IF name = "date" THEN TriageDateInputs ELSE ShiftTypeInputs

ShiftIds == 1..MaxShifts

\* crypto.randomUUID() for a shift.
FreshShiftIds ==
    LET free == ShiftIds \ (IdsOf(ParseSaved(triageStorage)) \cup IdsOf(triageEntries)
                              \cup IdsOf(otherTriageEntries))
    IN  {i \in free : \A j \in free : i <= j}

\* The state of the triage section on a page where nothing was ever logged;
\* a second tab, where there is one, has loaded the same.
NoTriage ==
    /\ triageStorage = Missing
    /\ triageEntries = FetchTriageEntries(triageStorage, <<>>)
    /\ triageFormData = InitialTriageForm
    /\ showTriageForm = FALSE
    /\ otherTriageEntries = FetchTriageEntries(triageStorage, <<>>)

\* The frame of the triage handlers: the timesheet section.
timesheet == <<variant, storage, entries, editId, formData, writable>>

\* onClick of the Log Shift / Cancel Log button.
ToggleTriageForm ==
    /\ showTriageForm' = ~showTriageForm
    /\ last' = Outcome("triageToggle", "toggled")
    /\ download' = NoDownload
    /\ UNCHANGED <<timesheet, otherTriageEntries, now, triageStorage, triageEntries, triageFormData>>

\* handleTriageInputChange; the form is rendered only while showTriageForm.
HandleTriageInputChange(name, value) ==
    /\ showTriageForm
    /\ triageFormData[name] # value
    /\ triageFormData' = [triageFormData EXCEPT ![name] = value]
    /\ last' = Outcome("triageInput", "changed")
    /\ download' = NoDownload
    /\ UNCHANGED <<timesheet, otherTriageEntries, now, triageStorage, triageEntries, showTriageForm>>

\* Mutant of HandleTriageSubmit: the new shift is added to the collection
\* read back from localStorage, not to the in-memory list.
HandleTriageSubmitRereads ==
    /\ showTriageForm
    /\ download' = NoDownload
    /\ UNCHANGED <<timesheet, otherTriageEntries>>
    /\ IF triageFormData.date = EmptyDate \/ triageFormData.shiftType = ""
       THEN /\ last' = Outcome("triageSubmit", "ignored")
            /\ UNCHANGED <<now, triage>>
       ELSE \E id \in FreshShiftIds :
              LET newEntry == [id |-> id, date |-> triageFormData.date,
                               shiftType |-> triageFormData.shiftType,
                               createdAt |-> now]
                  updated == SortByDateDesc(<<newEntry>> \o ParseSaved(triageStorage))
              IN  /\ now' = ClockAfter(now)
                  /\ triageEntries' = updated
                  /\ IF writable
                     THEN /\ triageStorage' = Json(updated)
                          /\ triageFormData' = InitialTriageForm
                          /\ showTriageForm' = FALSE
                          /\ last' = Outcome("triageSubmit", "saved")
                     ELSE /\ last' = Outcome("triageSubmit", "threw")
                          /\ UNCHANGED <<triageStorage, triageFormData, showTriageForm>>

\* handleTriageSubmit: setTriageEntries comes before setItem and there is no
\* try/catch, so when setItem throws the queued state update is still
\* applied while the form is neither reset nor hidden.
HandleTriageSubmit ==
    /\ showTriageForm
    /\ download' = NoDownload
    /\ UNCHANGED <<timesheet, otherTriageEntries>>
    /\ IF triageFormData.date = EmptyDate \/ triageFormData.shiftType = ""
       THEN /\ last' = Outcome("triageSubmit", "ignored")
            /\ UNCHANGED <<now, triage>>
       ELSE \E id \in FreshShiftIds :
              LET newEntry == [id |-> id, date |-> triageFormData.date,
                               shiftType |-> triageFormData.shiftType,
                               createdAt |-> now]
                  updated == SortByDateDesc(<<newEntry>> \o triageEntries)
              IN  /\ now' = ClockAfter(now)
                  /\ triageEntries' = updated
                  /\ IF writable
                     THEN /\ triageStorage' = Json(updated)
                          /\ triageFormData' = InitialTriageForm
                          /\ showTriageForm' = FALSE
                          /\ last' = Outcome("triageSubmit", "saved")
                     ELSE /\ last' = Outcome("triageSubmit", "threw")
                          /\ UNCHANGED <<triageStorage, triageFormData, showTriageForm>>

\* Mutant of HandleDeleteTriage: the answer of window.confirm is not looked at.
HandleDeleteTriageNoConfirm(i, confirm) ==
    /\ i \in DOMAIN triageEntries
    /\ download' = NoDownload
    /\ UNCHANGED <<timesheet, otherTriageEntries, now, triageFormData, showTriageForm>>
    /\ triageEntries' = RemoveId(triageEntries, triageEntries[i].id)
    /\ IF writable
       THEN /\ triageStorage' = Json(triageEntries')
            /\ last' = Outcome("triageDelete", IF confirm THEN "deleted" ELSE "declined")
       ELSE /\ last' = Outcome("triageDelete", IF confirm THEN "threw" ELSE "declined")
            /\ UNCHANGED triageStorage

\* handleDeleteTriage(id), id being that of row i of the triage table.
HandleDeleteTriage(i, confirm) ==
    /\ i \in DOMAIN triageEntries
    /\ download' = NoDownload
    /\ UNCHANGED <<timesheet, otherTriageEntries, now, triageFormData, showTriageForm>>
    /\ IF ~confirm
       THEN /\ last' = Outcome("triageDelete", "declined")
            /\ UNCHANGED <<triageStorage, triageEntries>>
       ELSE /\ triageEntries' = RemoveId(triageEntries, triageEntries[i].id)
            /\ IF writable
               THEN /\ triageStorage' = Json(triageEntries')
                    /\ last' = Outcome("triageDelete", "deleted")
               ELSE /\ last' = Outcome("triageDelete", "threw")
                    /\ UNCHANGED triageStorage

\* Mutant of HandleClearAllTriage: localStorage.clear() in place of
\* removeItem(TRIAGE_STORAGE_KEY).
HandleClearAllTriageClearsAll(confirm) ==
    /\ triageEntries # <<>>
    /\ download' = NoDownload
    /\ UNCHANGED <<variant, entries, editId, formData, writable, otherTriageEntries,
                   now, triageFormData, showTriageForm>>
    /\ IF ~confirm
       THEN /\ last' = Outcome("triageClear", "declined")
            /\ UNCHANGED <<storage, triageStorage, triageEntries>>
       ELSE /\ triageEntries' = <<>>
            /\ triageStorage' = Missing
            /\ storage' = Missing
            /\ last' = Outcome("triageClear", "cleared")

\* handleClearAllTriage; the Clear All button is disabled while the list is
\* empty.  removeItem does not throw.
HandleClearAllTriage(confirm) ==
    /\ triageEntries # <<>>
    /\ download' = NoDownload
    /\ UNCHANGED <<timesheet, otherTriageEntries, now, triageFormData, showTriageForm>>
    /\ IF ~confirm
       THEN /\ last' = Outcome("triageClear", "declined")
            /\ UNCHANGED <<triageStorage, triageEntries>>
       ELSE /\ triageEntries' = <<>>
            /\ triageStorage' = Missing
            /\ last' = Outcome("triageClear", "cleared")

\* localStorage starts or stops accepting writes: the quota is reached by
\* what other pages of the origin store, or room is made again.
QuotaChange ==
    /\ writable' = ~writable
    /\ last' = Outcome("quota", "changed")
    /\ download' = NoDownload
    /\ UNCHANGED <<variant, storage, entries, editId, formData, now, triage, otherTriageEntries>>

-----------------------------------------------------------------------------
(* A second tab of the same origin: another instance of the component on    *)
(* the same two keys.  Of its state the model keeps what its writes are     *)
(* made of: its timesheet writes start from what localStorage holds, its    *)
(* triage writes from its own in-memory triage list.  The component does    *)
(* not listen to storage events, so a tab never sees the other's writes     *)
(* before its own next read.                                                *)

\* The entry form of the second tab, filled in.
OtherTabForm == [InitialForm EXCEPT !.task = "t", !.hours = Str(<<"8">>)]

\* handleSubmit of the second tab, creating an entry.
OtherTabSubmit ==
    /\ ~ParseThrows(storage) /\ writable
    /\ \E id \in FreshIds :
          storage' = Json(UpdateStorageEntry(ParseSaved(storage), NoId,
                              JsonEntry(NewEntry(OtherTabForm, id, now))))
    /\ now' = ClockAfter(now)
    /\ last' = Outcome("otherSubmit", "saved")
    /\ download' = NoDownload
    /\ UNCHANGED <<variant, entries, editId, formData, writable, triage, otherTriageEntries>>

\* handleTriageSubmit of the second tab, on its initial triage form.
OtherTabTriageSubmit ==
    /\ writable
    /\ \E id \in FreshShiftIds :
          LET newEntry == [id |-> id, date |-> InitialTriageForm.date,
                           shiftType |-> InitialTriageForm.shiftType,
                           createdAt |-> now]
              updated == SortByDateDesc(<<newEntry>> \o otherTriageEntries)
          IN  /\ otherTriageEntries' = updated
              /\ triageStorage' = Json(updated)
    /\ now' = ClockAfter(now)
    /\ last' = Outcome("otherTriageSubmit", "saved")
    /\ download' = NoDownload
    /\ UNCHANGED <<timesheet, triageEntries, triageFormData, showTriageForm>>

-----------------------------------------------------------------------------
(* The component *)

\* The state once the first variant of the component is mounted: useState's
\* initial values and the fetchEntries() of the mount effect, on an empty
\* localStorage.
Init ==
    /\ variant = 1
    /\ storage = Missing
    /\ entries = FetchEntries(storage, <<>>)
    /\ editId = NoId
    /\ formData = InitialForm
    /\ now = 0
    /\ last = Outcome("mount", "loaded")
    /\ download = NoDownload
    /\ writable = TRUE
    /\ NoTriage

Next ==
    \/ \E name \in Fields(variant) : \E value \in InputValues(variant, name) :
          HandleInputChange(name, value)
    \/ HandleSubmit
    \/ \E i \in 1..MaxEntries : HandleEdit(i)
    \/ HandleCancelEdit
    \/ \E i \in 1..MaxEntries : \E confirm \in BOOLEAN : HandleDelete(i, confirm)
    \/ \E confirm \in BOOLEAN : HandleResetAndExport(confirm)

Spec == Init /\ [][Next]_vars

-----------------------------------------------------------------------------
(* The component started on a localStorage that already holds something:   *)
(* entries written by an earlier session or another variant (the three     *)
(* variants share STORAGE_KEY), or text that is not JSON.  The user works  *)
(* on what was loaded: edit, resubmit, cancel, delete, export.             *)

StoredHours == {Num(80), Num(5), Null, Undefined, Str(<<"x">>)}

StoredEntries(id) ==
    [id : {id}, task : {"t"}, description : {""}, category : {"project", "MS"},
     effort_type : {"billable", "Billable", "nonbillable"},
     date : {Jan31, Feb01}, hours : StoredHours, created_at : {0}]

RECURSIVE StoredLists(_)
StoredLists(n) ==
    IF n = 0 THEN {<<>>}
    ELSE StoredLists(n - 1)
         \cup {Append(l, e) : l \in {x \in StoredLists(n - 1) : Len(x) = n - 1},
                              e \in StoredEntries(n)}

InitStored ==
    /\ variant \in Variants
    /\ storage \in {Missing, Corrupt} \cup {Json(l) : l \in StoredLists(MaxEntries)}
    /\ entries = FetchEntries(storage, <<>>)
    /\ editId = NoId
    /\ formData = InitialForm
    /\ now = 0
    /\ last = Outcome("mount", "loaded")
    /\ download = NoDownload
    /\ writable = TRUE
    /\ NoTriage

NextStored ==
    \/ HandleSubmit
    \/ \E i \in 1..MaxEntries : HandleEdit(i)
    \/ HandleCancelEdit
    \/ \E i \in 1..MaxEntries : \E confirm \in BOOLEAN : HandleDelete(i, confirm)
    \/ \E confirm \in BOOLEAN : HandleResetAndExport(confirm)

SpecStored == InitStored /\ [][NextStored]_vars

-----------------------------------------------------------------------------
(* The first variant started on a localStorage whose content may be text   *)
(* that JSON.parse rejects.                                                *)

InitCorrupt ==
    /\ variant = 1
    /\ storage \in {Missing, Corrupt}
    /\ entries = FetchEntries(storage, <<>>)
    /\ editId = NoId
    /\ formData = InitialForm
    /\ now = 0
    /\ last = Outcome("mount", "loaded")
    /\ download = NoDownload
    /\ writable = TRUE
    /\ NoTriage

SpecCorrupt == InitCorrupt /\ [][Next]_vars

-----------------------------------------------------------------------------
(* The form alone: handleInputChange with every option of the category     *)
(* select, from a form that holds the initial category and any effort type *)
(* of any variant.                                                         *)

AllEffortTypes == UNION {Range(EFFORT_TYPES(v)) : v \in Variants}

FormStates ==
    [date : {Today}, task : TaskInputs, description : DescriptionInputs,
     category : {InitialForm.category}, effort_type : AllEffortTypes,
     hours : {Str(<<>>), Str(<<"8">>)}]

FormInputValues(v, name) ==
    IF name = "category" THEN Range(CATEGORIES(v)) ELSE InputValues(v, name)

InitForm ==
    /\ variant \in Variants
    /\ storage = Missing
    /\ entries = <<>>
    /\ editId = NoId
    /\ formData \in FormStates
    /\ now = 0
    /\ last = Outcome("mount", "loaded")
    /\ download = NoDownload
    /\ writable = TRUE
    /\ NoTriage

NextForm ==
    \E name \in Fields(variant) : \E value \in FormInputValues(variant, name) :
        HandleInputChange(name, value)

SpecForm == InitForm /\ [][NextForm]_vars

-----------------------------------------------------------------------------
(* The second variant with its triage section, on a localStorage that may   *)
(* refuse a write.  The user types a task and the hours, submits, edits,    *)
(* cancels and deletes entries, and logs, deletes and clears shifts.        *)

InitTriage ==
    /\ variant = 2
    /\ storage = Missing
    /\ entries = FetchEntries(storage, <<>>)
    /\ editId = NoId
    /\ formData = InitialForm
    /\ now = 0
    /\ last = Outcome("mount", "loaded")
    /\ download = NoDownload
    /\ writable \in BOOLEAN
    /\ NoTriage

NextTriage ==
    \/ HandleInputChange("task", "t")
    \/ HandleInputChange("hours", Str(<<"8">>))
    \/ HandleSubmit
    \/ \E i \in 1..MaxEntries : HandleEdit(i)
    \/ HandleCancelEdit
    \/ \E i \in 1..MaxEntries : \E confirm \in BOOLEAN : HandleDelete(i, confirm)
    \/ ToggleTriageForm
    \/ \E name \in {"date", "shiftType"} : \E value \in TriageInputValues(name) :
          HandleTriageInputChange(name, value)
    \/ HandleTriageSubmit
    \/ \E i \in 1..MaxShifts : \E confirm \in BOOLEAN : HandleDeleteTriage(i, confirm)
    \/ \E confirm \in BOOLEAN : HandleClearAllTriage(confirm)
    \/ QuotaChange

SpecTriage == InitTriage /\ [][NextTriage]_vars

-----------------------------------------------------------------------------
(* The editor of the second variant, whose CATEGORIES and EFFORT_TYPES are  *)
(* capitalised, mounted on an empty localStorage.                           *)

InitSecond ==
    /\ variant = 2
    /\ storage = Missing
    /\ entries = FetchEntries(storage, <<>>)
    /\ editId = NoId
    /\ formData = InitialForm
    /\ now = 0
    /\ last = Outcome("mount", "loaded")
    /\ download = NoDownload
    /\ writable = TRUE
    /\ NoTriage

SpecSecond == InitSecond /\ [][Next]_vars

-----------------------------------------------------------------------------
(* One tab of the second variant on a localStorage that accepts every       *)
(* write: the user creates, edits, deletes and exports entries and logs,    *)
(* deletes and clears shifts.                                               *)

NextSession ==
    \/ HandleInputChange("task", "t")
    \/ HandleInputChange("hours", Str(<<"8">>))
    \/ HandleSubmit
    \/ \E i \in 1..MaxEntries : HandleEdit(i)
    \/ HandleCancelEdit
    \/ \E i \in 1..MaxEntries : \E confirm \in BOOLEAN : HandleDelete(i, confirm)
    \/ \E confirm \in BOOLEAN : HandleResetAndExport(confirm)
    \/ ToggleTriageForm
    \/ \E name \in {"date", "shiftType"} : \E value \in TriageInputValues(name) :
          HandleTriageInputChange(name, value)
    \/ HandleTriageSubmit
    \/ \E i \in 1..MaxShifts : \E confirm \in BOOLEAN : HandleDeleteTriage(i, confirm)
    \/ \E confirm \in BOOLEAN : HandleClearAllTriage(confirm)

SpecSession == InitSecond /\ [][NextSession]_vars

-----------------------------------------------------------------------------
(* Two tabs of the second variant, both mounted on an empty localStorage:   *)
(* the handlers of one tab, and the second tab creating entries and         *)
(* logging shifts in between.                                               *)

NextTabs ==
    \/ HandleInputChange("task", "t")
    \/ HandleInputChange("hours", Str(<<"8">>))
    \/ HandleSubmit
    \/ \E i \in 1..MaxEntries : \E confirm \in BOOLEAN : HandleDelete(i, confirm)
    \/ ToggleTriageForm
    \/ HandleTriageSubmit
    \/ \E i \in 1..MaxShifts : \E confirm \in BOOLEAN : HandleDeleteTriage(i, confirm)
    \/ OtherTabSubmit
    \/ OtherTabTriageSubmit

SpecTabs == InitSecond /\ [][NextTabs]_vars

-----------------------------------------------------------------------------
(* The export: the component started on a localStorage that holds entries   *)
(* whose task and description contain double quotes, commas and line        *)
(* feeds (the task is a text input, the description a textarea); the user   *)
(* deletes entries and exports.                                             *)

ExportTasks == {"t", "\"", "a,b", "\",\"", "He said \"hi\""}
ExportDescriptions == {"", "x\ny", "\""}

ExportEntries(id) ==
    [id : {id}, task : ExportTasks, description : ExportDescriptions,
     category : {"project"}, effort_type : {"billable"},
     date : {Jan31, Feb01}, hours : {Num(5), Null}, created_at : {0}]

RECURSIVE ExportLists(_)
ExportLists(n) ==
    IF n = 0 THEN {<<>>}
    ELSE ExportLists(n - 1)
         \cup {Append(l, e) : l \in {x \in ExportLists(n - 1) : Len(x) = n - 1},
                              e \in ExportEntries(n)}

InitExport ==
    /\ variant \in Variants
    /\ storage \in {Json(l) : l \in ExportLists(MaxEntries)}
    /\ entries = FetchEntries(storage, <<>>)
    /\ editId = NoId
    /\ formData = InitialForm
    /\ now = 0
    /\ last = Outcome("mount", "loaded")
    /\ download = NoDownload
    /\ writable = TRUE
    /\ NoTriage

NextExport ==
    \/ \E i \in 1..MaxEntries : \E confirm \in BOOLEAN : HandleDelete(i, confirm)
    \/ \E confirm \in BOOLEAN : HandleResetAndExport(confirm)

SpecExport == InitExport /\ [][NextExport]_vars

-----------------------------------------------------------------------------
(* Properties *)

Saved == ParseSaved(storage)

SavedAfter == ParseSaved(storage')

Did(op, how) == last = Outcome(op, how)

Does(op, how) == last' = Outcome(op, how)

\* s without its element at position k.
Without(s, k) == [j \in 1..(Len(s) - 1) |-> IF j < k THEN s[j] ELSE s[j + 1]]

\* a is not after b, for two dates yyyy-MM-dd.
NotAfter(a, b) ==
    \/ a[1] < b[1]
    \/ a[1] = b[1] /\ a[2] < b[2]
    \/ a[1] = b[1] /\ a[2] = b[2] /\ a[3] <= b[3]

\* C1 (as claimed): a submit while the stored entry editId is being edited
\* replaces that record only; the record keeps its id and its original
\* created_at, the other records and the length of the collection are
\* unchanged.
C1_UpdateKeepsIdAndCreatedAt ==
    [][(Does("submit", "saved") /\ editId # NoId /\ editId \in IdsOf(Saved))
        => /\ Len(SavedAfter) = Len(Saved)
           /\ \A i \in DOMAIN Saved :
                IF Saved[i].id = editId
                THEN /\ SavedAfter[i].id = editId
                     /\ SavedAfter[i].created_at = Saved[i].created_at
                ELSE SavedAfter[i] = Saved[i]]_vars

\* C2: a confirmed delete of the row with id X removes from the persisted
\* collection exactly the one entry with id X; the others stay, unchanged
\* and in the same order.
C2_DeleteRemovesExactlyOne ==
    [][\A i \in DOMAIN entries :
        (Does("delete", "deleted") /\ HandleDelete(i, TRUE))
        => \E k \in DOMAIN Saved :
              /\ Saved[k].id = entries[i].id
              /\ \A j \in DOMAIN Saved : Saved[j].id = entries[i].id => j = k
              /\ SavedAfter = Without(Saved, k)]_vars

\* C2 witness: a delete was confirmed and another entry is still stored.
C2_Witness == Did("delete", "deleted") /\ Len(Saved) = 1

\* C3: export-and-reset on a non-empty list: accepted, the persisted
\* collection and the in-memory list are empty afterwards; declined, both
\* are as before.
C3_ExportClearsOrKeeps ==
    [][\A c \in BOOLEAN :
        (entries # <<>> /\ last'.op = "export" /\ HandleResetAndExport(c))
        => IF c
           THEN ~ParseThrows(storage') /\ SavedAfter = <<>> /\ entries' = <<>>
           ELSE storage' = storage /\ entries' = entries]_vars

\* C3 witness: the export was accepted, storage and list are empty.
C3_Witness == Did("export", "cleared") /\ Saved = <<>> /\ entries = <<>>

\* C4: in each variant the summary of the entries list has
\* total = billable + nonBillable, whatever the effort types are.
C4_TotalIsSumOfBuckets ==
    LET sm == Summary(variant, entries)
    IN  sm.total = sm.billable + sm.nonBillable

\* C4 witness: after an update, both buckets hold hours and one entry has
\* an effort type outside the vocabulary of the running variant.
C4_Witness ==
    LET sm == Summary(variant, entries)
    IN  /\ Did("submit", "saved")
        /\ sm.billable > 0
        /\ sm.nonBillable > 0
        /\ \E i \in DOMAIN entries :
              /\ entries[i].effort_type \notin Range(EFFORT_TYPES(variant))
              /\ EntryHours(entries[i]) > 0

Parseable(e) == ParseFloat(e.hours).k = "num"

ParseableOnly(es) == SelectSeq(es, Parseable)

\* Value of key c in a map of category totals, 0 when the key is absent.
At(map, c) == IF c \in DOMAIN map THEN map[c] ELSE 0

\* The maps of category totals of a summary.
CategoryMaps(v, sm) ==
    IF v = 3 THEN <<sm.categoryTotals>>
    ELSE <<sm.billableCategories, sm.nonBillableCategories>>

GroupTotal(groups, d) ==
    IF \E j \in DOMAIN groups : groups[j].date = d
    THEN groups[CHOOSE j \in DOMAIN groups : groups[j].date = d].totalHours
    ELSE 0

\* C5: an entry whose hours do not parse as a number adds 0 to total,
\* billable, nonBillable, every category total and the total of its day
\* group: all of them are what the parseable entries alone give.
C5_UnparseableHoursCountZero ==
    LET full == Summary(variant, entries)
        rest == Summary(variant, ParseableOnly(entries))
    IN  /\ full.total = rest.total
        /\ full.billable = rest.billable
        /\ full.nonBillable = rest.nonBillable
        /\ \A m \in DOMAIN CategoryMaps(variant, full) :
             \A c \in DOMAIN CategoryMaps(variant, full)[m] :
                CategoryMaps(variant, full)[m][c] = At(CategoryMaps(variant, rest)[m], c)
        /\ \A i \in DOMAIN entries :
             GroupTotal(GroupedEntries(entries), entries[i].date)
               = GroupTotal(GroupedEntries(ParseableOnly(entries)), entries[i].date)

\* C5 witness: the list was loaded and a handler has run since; an entry
\* with unparseable hours shares its day, category and bucket with an entry
\* that has hours.
C5_Witness ==
    \E i, j \in DOMAIN entries :
        /\ last.op # "mount"
        /\ ~Parseable(entries[i])
        /\ Parseable(entries[j]) /\ EntryHours(entries[j]) > 0
        /\ entries[i].date = entries[j].date
        /\ entries[i].category = entries[j].category
        /\ entries[i].effort_type = entries[j].effort_type

\* The effort type the category stands for: the first value of the
\* variant's EFFORT_TYPES for MS and project, the second for the others.
C6_Expected(v, c) ==
    IF c \in {"MS", "project", "Project"} THEN EFFORT_TYPES(v)[1] ELSE EFFORT_TYPES(v)[2]

\* C6: a change of the form's category sets the effort type from the new
\* category alone, whatever the form held before.
C6_CategorySetsEffort ==
    [][(Does("input", "changed") /\ formData'.category # formData.category)
        => formData'.effort_type = C6_Expected(variant, formData'.category)]_vars

\* C6 witness: Holiday was selected on a form and the effort type is the
\* non-billable value.
C6_Witness ==
    /\ Did("input", "changed")
    /\ formData.category = "Holiday"
    /\ formData.effort_type = EFFORT_TYPES(variant)[2]

\* C7: a submit with an empty task, date or hours is refused with a notice
\* and changes nothing.
C7_EmptyRequiredAborts ==
    [][((formData.task = "" \/ formData.date = EmptyDate \/ formData.hours = Str(<<>>))
         /\ last'.op = "submit")
        => /\ Does("submit", "required")
           /\ UNCHANGED <<storage, entries, editId, formData>>]_vars

\* C7 witness: a submit was refused on a form whose only empty required
\* field is the date, with an entry stored.
C7_Witness ==
    /\ Did("submit", "required")
    /\ formData.date = EmptyDate /\ formData.task # "" /\ Truthy(formData.hours)
    /\ Saved # <<>>

C9_EntriesSortedByDate ==
    \A i, j \in DOMAIN entries : i < j => NotAfter(entries[i].date, entries[j].date)

\* C9 witness: after a submit the list holds two entries that are stored
\* in the opposite order.
C9_Witness ==
    /\ Did("submit", "saved")
    /\ Len(entries) = 2 /\ Len(Saved) = 2
    /\ entries[1].date # entries[2].date
    /\ entries[1] = Saved[2]

\* C10 (as claimed): a handler that reads unparseable stored content goes
\* on as if the collection were empty: no error notice, no exception.
C10_UnparseableReadIsSilent ==
    ParseThrows(storage) => last.outcome \notin {"error", "threw"}

\* C11 (as claimed): when a handler's write to localStorage fails, the
\* failure is shown to the user (the alert of the catch block) and the
\* in-memory entries list, the in-memory triage list, editId and the form
\* are what they were before the handler.
C11_WriteFailureKeepsMemory ==
    [][(~writable /\ ~ParseThrows(storage) /\ last'.outcome \in {"error", "threw"})
        => /\ last'.outcome = "error"
           /\ UNCHANGED <<entries, triageEntries, editId, formData>>]_vars

\* C12: a declined confirmation of a timesheet delete, a shift delete or a
\* clear-all changes neither persisted collection, neither in-memory list,
\* nor editId or the form.
C12_DeclinedChangesNothing ==
    [][/\ \A i \in 1..MaxEntries :
            (last'.op = "delete" /\ HandleDelete(i, FALSE))
            => UNCHANGED <<storage, triageStorage, entries, triageEntries, editId, formData>>
       /\ \A i \in 1..MaxShifts :
            (last'.op = "triageDelete" /\ HandleDeleteTriage(i, FALSE))
            => UNCHANGED <<storage, triageStorage, entries, triageEntries, editId, formData>>
       /\ (last'.op = "triageClear" /\ HandleClearAllTriage(FALSE))
            => UNCHANGED <<storage, triageStorage, entries, triageEntries, editId, formData>>]_vars

\* C12 witness: a shift delete was declined while shifts and entries exist
\* and an entry is being edited.
C12_Witness ==
    /\ Did("triageDelete", "declined")
    /\ triageEntries # <<>> /\ ParseSaved(triageStorage) # <<>>
    /\ entries # <<>> /\ editId # NoId

\* C13: a submit that passes validation while nothing is being edited
\* appends exactly one entry at the end of the persisted collection, under
\* an id that no persisted entry had, and leaves the entries persisted
\* before unchanged and in place.
C13_CreateAppendsOne ==
    [][(/\ last'.op = "submit"
        /\ editId = NoId
        /\ formData.task # "" /\ formData.date # EmptyDate /\ formData.hours # Str(<<>>))
        => /\ Len(SavedAfter) = Len(Saved) + 1
           /\ \A i \in DOMAIN Saved : SavedAfter[i] = Saved[i]
           /\ SavedAfter[Len(SavedAfter)].id \notin IdsOf(Saved) \cup {NoId}]_vars

\* C13 witness: a submit has stored an entry behind one that was created
\* after an earlier entry was deleted (the ids are given out smallest first).
C13_Witness ==
    /\ Did("submit", "saved")
    /\ editId = NoId
    /\ Len(Saved) = 2 /\ Saved[1].id = 2 /\ Saved[2].id = 1

\* The entries of es whose date is d, in the order of es.
OnDate(es, d) == SelectSeq(es, LAMBDA e : e.date = d)

\* Sum of the parsed hours of a sequence of entries, in tenths; hours that
\* do not parse count 0.
RECURSIVE HoursSum(_)
HoursSum(es) ==
    IF es = <<>> THEN 0
    ELSE (IF Parseable(Head(es)) THEN ParseFloat(Head(es).hours).n ELSE 0)
         + HoursSum(Tail(es))

\* a is before b, for two dates yyyy-MM-dd.
Before(a, b) == NotAfter(a, b) /\ a # b

\* C14: the day groups partition the entries list by date: every entry is in
\* exactly one group, the one of its date; the dates of the groups are
\* distinct and ascending; the items of a group are the entries of that date
\* in the order of the list; totalHours is the sum of their parsed hours.
C14_GroupsPartitionByDate ==
    LET g == GroupedEntries(entries)
    IN  /\ \A i \in DOMAIN entries :
              /\ \E j \in DOMAIN g :
                    /\ g[j].date = entries[i].date
                    /\ \E k \in DOMAIN g[j].items : g[j].items[k] = entries[i]
              /\ Cardinality({<<j, k>> \in (DOMAIN g) \X (1..Len(entries)) :
                                k <= Len(g[j].items) /\ g[j].items[k] = entries[i]}) = 1
        /\ \A j, k \in DOMAIN g : j < k => Before(g[j].date, g[k].date)
        /\ \A j \in DOMAIN g :
              /\ g[j].items # <<>>
              /\ g[j].items = OnDate(entries, g[j].date)
              /\ g[j].totalHours = HoursSum(g[j].items)

\* C14 witness: a handler has run and the list holds two entries of one day
\* with different hours, both counted.
C14_Witness ==
    /\ last.op # "mount"
    /\ Len(entries) = 2
    /\ entries[1].date = entries[2].date
    /\ HoursSum(<<entries[1]>>) > 0 /\ HoursSum(<<entries[2]>>) > 0
    /\ HoursSum(<<entries[1]>>) # HoursSum(<<entries[2]>>)

\* C15: in the variant that has the overtime warning, the warning of a day
\* group is rendered exactly when the parsed hours of the entries of that
\* day add up to more than 8 hours (80 tenths); the flag is no field of an
\* in-memory or persisted entry.
C15_OvertimeOnlyAboveEight ==
    variant = 2 =>
        /\ \A j \in DOMAIN GroupedEntries(entries) :
              OvertimeWarning(GroupedEntries(entries)[j])
                <=> HoursSum(OnDate(entries, GroupedEntries(entries)[j].date)) > 80
        /\ \A i \in DOMAIN entries :
              DOMAIN entries[i] = {"id", "task", "description", "category",
                                   "effort_type", "date", "hours", "created_at"}
        /\ \A i \in DOMAIN Saved :
              DOMAIN Saved[i] = {"id", "task", "description", "category",
                                 "effort_type", "date", "hours", "created_at"}

\* C15 witness: in the second variant, after a handler has run, a day made
\* of two entries totals exactly 8 hours and shows no warning.
C15_Witness ==
    /\ variant = 2
    /\ last.op # "mount"
    /\ \E j \in DOMAIN GroupedEntries(entries) :
          /\ GroupedEntries(entries)[j].totalHours = 80
          /\ Len(GroupedEntries(entries)[j].items) = 2
          /\ ~OvertimeWarning(GroupedEntries(entries)[j])

\* A CSV reader after RFC 4180.  A field that starts with a double quote
\* runs to its closing double quote; inside it a doubled double quote stands
\* for one, and commas and line feeds are part of the field.  Hence a comma
\* or a line feed separates exactly when an even number of double quotes
\* stands before it.

\* The number of double quotes among the first n symbols of a text.
QuotesBefore(text, n) == Cardinality({k \in 1..n : text[k] = Quote})

\* The j-th smallest element of a set of numbers.
Nth(K, j) == CHOOSE k \in K : Cardinality({x \in K : x <= k}) = j

\* The pieces of text[from..to] between the positions of seps, in order.
Pieces(text, from, to, seps) ==
    LET inside == {k \in seps : from <= k /\ k <= to}
        n == Cardinality(inside)
        start(p) == IF p = 1 THEN from ELSE Nth(inside, p - 1) + 1
        end(p) == IF p = n + 1 THEN to ELSE Nth(inside, p) - 1
    IN  [p \in 1..(n + 1) |-> [from |-> start(p), to |-> end(p)]]

\* A field as written, read: without its enclosing double quotes and with
\* the first of every two double quotes inside dropped.
Unquote(f) ==
    IF f # <<>> /\ f[1] = Quote
    THEN LET inner == SubSeq(f, 2, Len(f) - 1)
             kept == {k \in DOMAIN inner :
                        inner[k] # Quote \/ QuotesBefore(inner, k) % 2 = 0}
         IN  [j \in 1..Cardinality(kept) |-> inner[Nth(kept, j)]]
    ELSE f

\* The records of a CSV text, each the sequence of its fields.
CsvRecords(text) ==
    LET outside == {k \in DOMAIN text : QuotesBefore(text, k - 1) % 2 = 0}
        feeds == {k \in outside : text[k] = LineFeed}
        commas == {k \in outside : text[k] = Comma}
        lines == Pieces(text, 1, Len(text), feeds)
    IN  [r \in DOMAIN lines |->
            LET fields == Pieces(text, lines[r].from, lines[r].to, commas)
            IN  [c \in DOMAIN fields |->
                    Unquote(SubSeq(text, fields[c].from, fields[c].to))]]

\* C16: in the exported CSV the task and the description of every entry
\* read back, by standard CSV unquoting, as the strings they were, double
\* quotes, commas and line feeds included.
C16_QuotedFieldsRoundTrip ==
    [][Does("export", "cleared")
        => LET recs == CsvRecords(download')
           IN  \A i \in DOMAIN entries :
                  /\ i + 1 \in DOMAIN recs
                  /\ Len(recs[i + 1]) >= 4
                  /\ recs[i + 1][3] = Chars(entries[i].task)
                  /\ recs[i + 1][4] = Chars(entries[i].description)]_vars

\* C16 witness: a CSV was exported in which one record has a task made of
\* double quotes and a comma and a description that is one double quote.
C16_Witness ==
    /\ Did("export", "cleared")
    /\ \E r \in DOMAIN CsvRecords(download) :
          /\ Len(CsvRecords(download)[r]) >= 4
          /\ CsvRecords(download)[r][3] = <<Quote, Comma, Quote>>
          /\ CsvRecords(download)[r][4] = <<Quote>>

\* C17: the exported CSV starts with the header
\* Day,Date,Task,Description,Category,Effort,Hours and has after it one
\* record of 7 fields per entry of the in-memory list, in the order of the
\* list, which is ascending by date.
C17_HeaderAndOneRowPerEntry ==
    [][Does("export", "cleared")
        => LET recs == CsvRecords(download')
           IN  /\ Len(download') >= 13
               /\ SubSeq(download', 1, 13)
                    = <<"Day", ",", "Date", ",", "Task", ",", "Description", ",",
                        "Category", ",", "Effort", ",", "Hours">>
               /\ Len(download') > 13 => download'[14] = LineFeed
               /\ Len(recs) = Len(entries) + 1
               /\ \A r \in DOMAIN recs : Len(recs[r]) = 7
               /\ \A i \in DOMAIN entries :
                     /\ recs[i + 1][2] = DateString(entries[i].date)
                     /\ recs[i + 1][3] = Chars(entries[i].task)
                     /\ recs[i + 1][5] = <<entries[i].category>>
                     /\ recs[i + 1][6] = <<entries[i].effort_type>>
               /\ \A i, j \in DOMAIN entries :
                     i < j => NotAfter(entries[i].date, entries[j].date)]_vars

\* C17 witness: a CSV of a header and two records was exported, the first
\* of the earlier date, one description holding a line feed and the last
\* record ending in an empty hours field.
C17_Witness ==
    /\ Did("export", "cleared")
    /\ Len(CsvRecords(download)) = 3
    /\ \A r \in 1..3 : Len(CsvRecords(download)[r]) = 7
    /\ CsvRecords(download)[2][2] = DateString(Jan31)
    /\ CsvRecords(download)[3][2] = DateString(Feb01)
    /\ CsvRecords(download)[2][4] = <<"x", LineFeed, "y">>
    /\ CsvRecords(download)[3][7] = <<>>

\* C18 (as claimed): in the variants whose effort select is disabled (the
\* first and the second), every persisted entry has the effort type that
\* the mapping gives its category, billable for project and MS and
\* non-billable for the others, in the vocabulary of the variant.
C18_EffortFollowsCategory ==
    variant \in {1, 2} =>
        \A i \in DOMAIN Saved :
            /\ Saved[i].effort_type = C6_Expected(variant, Saved[i].category)
            /\ Saved[i].effort_type \in Range(EFFORT_TYPES(variant))

\* C19 (as claimed): every persisted entry has a category of the CATEGORIES
\* list of the running variant.
C19_CategoryIsEnumerated ==
    \A i \in DOMAIN Saved : Saved[i].category \in Range(CATEGORIES(variant))

\* es with the effort type of its i-th entry respelled: Billable for
\* billable and billable for Billable.
Respelled(es, i) ==
    [es EXCEPT ![i].effort_type =
        IF @ = "Billable" THEN "billable" ELSE IF @ = "billable" THEN "Billable" ELSE @]

\* C20: in the triage variant the summary is the same whichever of the
\* spellings Billable and billable an entry carries: respelling any one
\* entry leaves total, billable, nonBillable and the category totals as
\* they are.
C20_BillableSpellingsEquivalent ==
    variant = 2 =>
        \A i \in DOMAIN entries :
            Summary(variant, Respelled(entries, i)) = Summary(variant, entries)

\* C20 witness: in the triage variant, after a handler has run, the list
\* holds an entry spelled billable and an entry spelled Billable, both with
\* hours.
C20_Witness ==
    /\ variant = 2
    /\ last.op # "mount"
    /\ \E i, j \in DOMAIN entries :
          /\ entries[i].effort_type = "billable" /\ EntryHours(entries[i]) > 0
          /\ entries[j].effort_type = "Billable" /\ EntryHours(entries[j]) > 0

\* s is in descending order of date.
SortedDescending(s) ==
    \A i, j \in DOMAIN s : i < j => NotAfter(s[j].date, s[i].date)

\* C21: the in-memory triage list and the persisted triage collection are
\* in descending order of date, after the load and after every log, delete
\* and clear-all of shifts.
C21_TriageSortedDescending ==
    /\ SortedDescending(triageEntries)
    /\ SortedDescending(ParseSaved(triageStorage))

\* C21 witness: a shift of the earlier date was logged after a shift of the
\* later date and stands behind it, in memory and in storage.
C21_Witness ==
    /\ Did("triageSubmit", "saved")
    /\ Len(triageEntries) = 2
    /\ triageEntries[1].date = Feb01 /\ triageEntries[1].id = 1
    /\ triageEntries[2].date = Jan31 /\ triageEntries[2].id = 2
    /\ ParseSaved(triageStorage) = triageEntries

\* C22: the timesheet handlers (create, update, delete, export-and-reset)
\* change neither the persisted nor the in-memory shifts, and the triage
\* handlers (log, delete, clear all) change neither the persisted nor the
\* in-memory entries, nor editId, nor the entry form.
C22_CollectionsIndependent ==
    [][/\ last'.op \in {"submit", "delete", "export"}
            => UNCHANGED <<triageStorage, triageEntries>>
       /\ last'.op \in {"triageSubmit", "triageDelete", "triageClear"}
            => UNCHANGED <<storage, entries, editId, formData>>]_vars

\* C22 witness: all shifts were cleared while an entry is persisted, listed
\* and being edited.
C22_Witness ==
    /\ Did("triageClear", "cleared")
    /\ Saved # <<>> /\ entries # <<>> /\ editId # NoId

\* A create or a delete of an entry by this tab has just been written.
EntryWritten == (Does("submit", "saved") /\ editId = NoId) \/ Does("delete", "deleted")

\* A log or a delete of a shift by this tab has just been written.
ShiftWritten == Does("triageSubmit", "saved") \/ Does("triageDelete", "deleted")

\* The persisted records this tab does not hold in memory: those the other
\* tab added since this tab last read.
C23_Unseen(saved, held) == {k \in DOMAIN saved : saved[k].id \notin IdsOf(held)}

\* C23 (as claimed): last write wins for both collections: when this tab
\* writes a create or a delete of another record, a record the other tab
\* added since this tab loaded is gone from the persisted collection.
C23_LastWriteWins ==
    [][/\ EntryWritten
            => \A k \in C23_Unseen(Saved, entries) : Saved[k].id \notin IdsOf(SavedAfter)
       /\ ShiftWritten
            => \A k \in C23_Unseen(ParseSaved(triageStorage), triageEntries) :
                  ParseSaved(triageStorage)[k].id \notin IdsOf(ParseSaved(triageStorage'))]_vars

\* C23 (amended): last write wins for the triage collection only.  A shift
\* the other tab added since this tab loaded is gone from the persisted
\* collection when this tab writes a log or a delete of another shift; an
\* entry the other tab added is still persisted, unchanged, when this tab
\* writes a create or a delete of another entry.
C23_ShiftsOverwrittenEntriesKept ==
    [][/\ EntryWritten
            => \A k \in C23_Unseen(Saved, entries) : Saved[k] \in Range(SavedAfter)
       /\ ShiftWritten
            => \A k \in C23_Unseen(ParseSaved(triageStorage), triageEntries) :
                  ParseSaved(triageStorage)[k].id \notin IdsOf(ParseSaved(triageStorage'))]_vars

\* C23 witness: this tab has logged a shift; the shift that the other tab
\* logged is persisted no more, while the entry the other tab created is
\* persisted next to the entry this tab created after it.
C23_Witness ==
    /\ Did("triageSubmit", "saved")
    /\ otherTriageEntries # <<>>
    /\ \A k \in DOMAIN otherTriageEntries :
          otherTriageEntries[k].id \notin IdsOf(ParseSaved(triageStorage))
    /\ ParseSaved(triageStorage) # <<>>
    /\ Len(Saved) = 2 /\ Len(entries) = 2

\* C24: every submit that passes validation and whose write succeeds
\* leaves, in the persisted collection, an entry with the submitted task,
\* date and hours; also when the entry being edited was deleted or cleared
\* while its data was in the form.
C24_SubmitPersistsTheForm ==
    [][Does("submit", "saved")
          => \E k \in DOMAIN SavedAfter :
                /\ SavedAfter[k].task = formData.task
                /\ SavedAfter[k].date = formData.date
                /\ SavedAfter[k].hours = JsonValue(ParseFloat(formData.hours))]_vars

\* a and b hold exactly the same records, in whatever order.
SameRecords(a, b) == Len(a) = Len(b) /\ Range(a) = Range(b)

\* C25: in one tab whose writes all succeed, after the load and after every
\* handler the in-memory entries are exactly the persisted entries and the
\* in-memory shifts are exactly the persisted shifts.
C25_MemoryMirrorsStorage ==
    /\ SameRecords(entries, Saved)
    /\ SameRecords(triageEntries, ParseSaved(triageStorage))

\* C25 witness: a second entry has been created while two shifts were
\* logged; both lists are held in memory and persisted.
C25_Witness ==
    /\ Did("submit", "saved")
    /\ Len(entries) = 2 /\ Len(Saved) = 2
    /\ Len(triageEntries) = 2 /\ Len(ParseSaved(triageStorage)) = 2

\* Sum of the values of a map of category totals.
RECURSIVE MapSum(_)
MapSum(map) ==
    IF DOMAIN map = {} THEN 0
    ELSE LET c == CHOOSE c \in DOMAIN map : TRUE
         IN  map[c] + MapSum([d \in DOMAIN map \ {c} |-> map[d]])

\* The entries of es of category c whose effort type goes to the billable
\* bucket (billable = TRUE) or to the other one.
InBucket(v, es, billable, c) ==
    SelectSeq(es, LAMBDA e : e.category = c /\ IsBillable(v, e.effort_type) = billable)

\* A map of category totals holds, under the categories of the entries of
\* one bucket and under no other key, the hours of these entries.
BucketOnly(v, es, billable, map) ==
    /\ DOMAIN map = {es[i].category : i \in {j \in DOMAIN es :
                                         IsBillable(v, es[j].effort_type) = billable}}
    /\ \A c \in DOMAIN map : map[c] = HoursSum(InBucket(v, es, billable, c))

\* C26: the category totals add up to their bucket: billableCategories to
\* billable and nonBillableCategories to nonBillable (categoryTotals to
\* total in the flat-list variant), and a key of a bucket's map holds hours
\* of entries of that bucket only.
C26_CategoryTotalsSumToBucket ==
    LET sm == Summary(variant, entries)
    IN  IF variant = 3
        THEN MapSum(sm.categoryTotals) = sm.total
        ELSE /\ MapSum(sm.billableCategories) = sm.billable
             /\ MapSum(sm.nonBillableCategories) = sm.nonBillable
             /\ BucketOnly(variant, entries, TRUE, sm.billableCategories)
             /\ BucketOnly(variant, entries, FALSE, sm.nonBillableCategories)

\* C26 witness: after a handler ran, the list has a billable and a
\* non-billable entry of the same category, both with hours, and the
\* category's two totals differ.
C26_Witness ==
    LET sm == Summary(variant, entries)
    IN  /\ last.op # "mount"
        /\ variant # 3
        /\ \E c \in DOMAIN sm.billableCategories \cap DOMAIN sm.nonBillableCategories :
              /\ sm.billableCategories[c] > 0
              /\ sm.nonBillableCategories[c] > 0
              /\ sm.billableCategories[c] # sm.nonBillableCategories[c]

\* The fields of an entry that the form edits.
Edited(e) == <<e.task, e.date, e.description, e.category, e.effort_type, e.hours>>

\* C27: an entry created through the form, clicked for editing and
\* submitted with no field changed, passes the validation and keeps its
\* task, date, description, category, effort type and hours in storage.
C27_EditThenSubmitKeepsEntry ==
    [][(last.op = "edit" /\ last'.op = "submit")
        => /\ Does("submit", "saved")
           /\ \A k \in DOMAIN Saved :
                 Saved[k].id = editId
                 => k \in DOMAIN SavedAfter /\ Edited(SavedAfter[k]) = Edited(Saved[k])]_vars

\* C28: export-and-reset on an empty in-memory list reports that there is
\* no data and does nothing else: no confirmation is asked, no CSV is
\* downloaded, and storage and the in-memory state stay as they are.
C28_ExportOfNothing ==
    [][(entries = <<>> /\ last'.op = "export")
        => /\ Does("export", "nodata")
           /\ download' = NoDownload
           /\ UNCHANGED <<storage, entries, editId, formData, triage>>]_vars

\* C28 witness: export-and-reset reported no data while the key held an
\* empty list and the form still held the data of a deleted entry.
C28_Witness ==
    /\ Did("export", "nodata")
    /\ entries = <<>>
    /\ storage = Json(<<>>)
    /\ editId # NoId /\ formData.task # ""

====
